---- MODULE Spec2Model ----
(***************************************************************************)
(* Live-monitoring telemetry engine of the DAQ dashboard:                  *)
(*   - LiveMonitoringProvider (context/LiveMonitorContext.tsx): socket     *)
(*     lifecycle, reset of the plot state, subscription requests;          *)
(*   - Monitoring (unnamed/part_003): system toggle, frame ingestion;      *)
(*   - Plots (components/Plots.tsx): pool / group routing of channels;     *)
(*   - CascadingMultiSelect: channel selection and the Stream button.      *)
(* Every event handler runs to completion (single-threaded event loop);    *)
(* the React effects that a handler's state changes trigger are part of    *)
(* the same step.                                                          *)
(***************************************************************************)
EXTENDS Integers, Sequences, FiniteSets, TLC

\* ---------------------------------------------------------------- bounds
NumChannels == 2
MaxSockets == 2
MaxGroups == 2

\* ------------------------------------------------------ program constants
maxReconnectAttempts == 3
CleanClose == 1000
GoingAway == 1001
AbnormalClosure == 1006

NULL == 0
EmptyMap == [k \in {} |-> <<>>]
Channels == 1..NumChannels
ConnectionType == {"Off", "Local", "Remote"}

VARIABLES
  connectionState,        \* useState<ConnectionType>("Off")
  selectedSystemIndex,    \* useRef<ConnectionType>("Off")
  dataStreamWSRef,        \* useRef<WebSocket | null>: a socket of sockets, or NULL
  sockets,                \* the WebSocket objects that still have events to come
  reconnectAttemptsRef,   \* useRef(0)
  reconnectTimeoutRef,    \* useRef<number | null>(null)
  activePlotChannelsRef,  \* Record<id, SeriesData>: id -> dataPoints
  seriesDataRef,          \* useRef<Record<string, SeriesData>>({})
  channelIdToPlotInfoRef, \* ids that have an Option recorded
  activeDiscreteChannelsRef, \* Record<id, "HIGH" | "LOW">
  availableChannels,      \* the unassigned pool (sorted list of channel values)
  channelGroups,          \* list of [id, channels]
  isStreaming,
  readers,                \* FileReaders that have been started and not yet loaded
  selectedOptions,        \* CascadingMultiSelect local state
  isChannelListChanged,   \* CascadingMultiSelect local state
  dashboard,              \* Monitoring: useState<DashboardType>, "Plots" or "Table"
  isPlotPausedForAnalysis, \* useState(false)
  isZoomedRefs,           \* Plots: isZoomedRefs.current.main
  lastEvent               \* the handler that ran last, and what it sent

vars == <<connectionState, selectedSystemIndex, dataStreamWSRef, sockets,
          reconnectAttemptsRef, reconnectTimeoutRef, activePlotChannelsRef,
          seriesDataRef, channelIdToPlotInfoRef, activeDiscreteChannelsRef,
          availableChannels, channelGroups, isStreaming,
          readers,
          selectedOptions, isChannelListChanged,
          dashboard, isZoomedRefs, isPlotPausedForAnalysis,
          lastEvent>>

\* ------------------------------------------------------------- helpers
\* Option.value is "<id> - <name>"; split(" - ")[0] recovers the id.
ChannelValue(id) == <<id, "ch">>
NumericId(value) == value[1]

Range(s) == {s[i] : i \in 1..Len(s)}

RECURSIVE SetToSortedSeq(_)
SetToSortedSeq(S) ==
  IF S = {} THEN <<>>
  ELSE LET m == CHOOSE x \in S : \A y \in S : x <= y
       IN <<m>> \o SetToSortedSeq(S \ {m})

\* Object.keys / Object.values of a record with integer-like keys: ascending.
Keys(S) == SetToSortedSeq(S)

\* [...list].sort((a, b) => a.localeCompare(b)) on channel values
RECURSIVE SortValues(_)
SortValues(s) ==
  IF s = <<>> THEN <<>>
  ELSE LET i == CHOOSE k \in 1..Len(s) :
                  /\ \A j \in 1..Len(s) : NumericId(s[k]) <= NumericId(s[j])
                  /\ \A j \in 1..(k - 1) : NumericId(s[j]) # NumericId(s[k])
       IN <<s[i]>> \o SortValues(SubSeq(s, 1, i - 1) \o SubSeq(s, i + 1, Len(s)))

\* lastEvent records the handler that ran last: its name, the socket whose
\* event it handled, its argument, what it sent, whether it found samples in
\* a series buffer (buffered) and chips in the pool or a group (routed), and
\* the ids it found in activePlotChannelsRef (wanted).
Evt(op, sock, arg, sent, buffered, routed, wanted) ==
  [op |-> op, sock |-> sock, arg |-> arg, sent |-> sent,
   buffered |-> buffered, routed |-> routed, wanted |-> wanted]

\* ------------------------------------------------------------- sockets
\* sockets lists, in order of construction, the WebSocket objects whose close
\* event has not been handled yet; a socket is dropped from the list when its
\* onclose has run (nothing refers to it after that).
SocketIds == 1..Len(sockets)
\* onmessage: the provider installs a no-op; Monitoring installs the ingesting
\* one, a closure over the isPlotPausedForAnalysis of the render that
\* installed it: "ingest" when that was false, "ingestPaused" when it was true
NewSocket(url) == [url |-> url, rs |-> "CONNECTING", onmessage |-> "noop"]
Remove(ss, s) == SubSeq(ss, 1, s - 1) \o SubSeq(ss, s + 1, Len(ss))
Drop(r, s) ==
  [r EXCEPT !.sockets = Remove(@, s),
            !.dataStreamWSRef = IF @ = s THEN NULL ELSE IF @ > s THEN @ - 1 ELSE @]

\* WebSocket.close(1000) called by the page
CloseByPage(ss, s) ==
  IF ss[s].rs = "OPEN" THEN [ss EXCEPT ![s].rs = "CLOSING"]
  ELSE IF ss[s].rs = "CONNECTING" THEN [ss EXCEPT ![s].rs = "ABORTING"]
  ELSE ss

\* An error event and the close event that follows it are dispatched by the
\* same task: nothing else runs while a socket is in ERRORED.
NoEventInProgress == \A s \in SocketIds : sockets[s].rs # "ERRORED"

\* ---------------------------------------------------------------- Init
Init ==
  /\ connectionState = "Off"
  /\ selectedSystemIndex = "Off"
  /\ dataStreamWSRef = NULL
  /\ sockets = <<>>
  /\ reconnectAttemptsRef = 0
  /\ reconnectTimeoutRef = NULL
  /\ activePlotChannelsRef = EmptyMap
  /\ seriesDataRef = EmptyMap
  /\ channelIdToPlotInfoRef = {}
  /\ activeDiscreteChannelsRef = EmptyMap
  /\ availableChannels = <<>>
  /\ channelGroups = <<>>
  /\ isStreaming = FALSE
  /\ readers = <<>>
  /\ selectedOptions = {}
  /\ isChannelListChanged = FALSE
  /\ dashboard = "Plots"
  /\ isZoomedRefs = FALSE
  /\ isPlotPausedForAnalysis = FALSE
  /\ lastEvent = Evt("init", NULL, NULL, <<>>, FALSE, FALSE, {})

\* ------------------------------------------------- state as one record
\* Handlers are written as functions from the state before to the state
\* after; "sent" collects what the handler sends, as [sock, msg] pairs.
Cur ==
  [connectionState |-> connectionState,
   selectedSystemIndex |-> selectedSystemIndex,
   dataStreamWSRef |-> dataStreamWSRef,
   sockets |-> sockets,
   reconnectAttemptsRef |-> reconnectAttemptsRef,
   reconnectTimeoutRef |-> reconnectTimeoutRef,
   activePlotChannelsRef |-> activePlotChannelsRef,
   seriesDataRef |-> seriesDataRef,
   channelIdToPlotInfoRef |-> channelIdToPlotInfoRef,
   activeDiscreteChannelsRef |-> activeDiscreteChannelsRef,
   availableChannels |-> availableChannels,
   channelGroups |-> channelGroups,
   isStreaming |-> isStreaming,
   readers |-> readers,
   selectedOptions |-> selectedOptions,
   isChannelListChanged |-> isChannelListChanged,
   dashboard |-> dashboard,
   isZoomedRefs |-> isZoomedRefs,
   isPlotPausedForAnalysis |-> isPlotPausedForAnalysis,
   sent |-> <<>>]

Commit(r, op, sock, arg) ==
  /\ connectionState' = r.connectionState
  /\ selectedSystemIndex' = r.selectedSystemIndex
  /\ dataStreamWSRef' = r.dataStreamWSRef
  /\ sockets' = r.sockets
  /\ reconnectAttemptsRef' = r.reconnectAttemptsRef
  /\ reconnectTimeoutRef' = r.reconnectTimeoutRef
  /\ activePlotChannelsRef' = r.activePlotChannelsRef
  /\ seriesDataRef' = r.seriesDataRef
  /\ channelIdToPlotInfoRef' = r.channelIdToPlotInfoRef
  /\ activeDiscreteChannelsRef' = r.activeDiscreteChannelsRef
  /\ availableChannels' = r.availableChannels
  /\ channelGroups' = r.channelGroups
  /\ isStreaming' = r.isStreaming
  /\ readers' = r.readers
  /\ selectedOptions' = r.selectedOptions
  /\ isChannelListChanged' = r.isChannelListChanged
  /\ dashboard' = r.dashboard
  /\ isZoomedRefs' = r.isZoomedRefs
  /\ isPlotPausedForAnalysis' = r.isPlotPausedForAnalysis
  /\ lastEvent' = Evt(op, sock, arg, r.sent,
                      \E k \in DOMAIN activePlotChannelsRef :
                         activePlotChannelsRef[k] # <<>>,
                      availableChannels # <<>> \/ channelGroups # <<>>,
                      DOMAIN activePlotChannelsRef)

\* ------------------------------------------------------- React effects
\* CascadingMultiSelect.cleanUpSelectedChannels(optionListToMatch), with
\* optionListToMatch given as the set of ids it contains.
cleanUpSelectedChannels(r, optionIds) ==
  IF r.connectionState # "Off"
  THEN LET gone == DOMAIN r.activePlotChannelsRef \ optionIds
           info == r.channelIdToPlotInfoRef \ gone
       IN [r EXCEPT
             !.activePlotChannelsRef =
                [k \in DOMAIN r.activePlotChannelsRef \ gone |->
                   r.activePlotChannelsRef[k]],
             !.channelIdToPlotInfoRef = info,
             !.selectedOptions = info,
             !.isChannelListChanged = (gone # {})]
  ELSE [r EXCEPT !.selectedOptions = {}, !.isChannelListChanged = FALSE]

\* CascadingMultiSelect: "Reset everything when connection is turned Off"
ResetOnOffEffect(r) ==
  IF r.connectionState = "Off"
  THEN [r EXCEPT !.selectedOptions = {},
                 !.availableChannels = <<>>,
                 !.activeDiscreteChannelsRef = EmptyMap,
                 !.activePlotChannelsRef = EmptyMap,
                 !.channelIdToPlotInfoRef = {}]
  ELSE r

\* Provider: "Reset channel groups and available channels when connection is Off"
ProviderOffEffect(r) ==
  IF r.connectionState = "Off"
  THEN [r EXCEPT !.channelGroups = <<>>, !.availableChannels = <<>>]
  ELSE r

\* the pause effect leaving the buffers as they are
PauseEffect_KeepsPoints(r) == r

\* Provider: the effect on isPlotPausedForAnalysis
PauseEffect(r) ==
  IF ~r.isPlotPausedForAnalysis
  THEN [r EXCEPT !.activePlotChannelsRef =
                    [k \in DOMAIN r.activePlotChannelsRef |-> <<>>]]
  ELSE r

\* Monitoring: the effect that installs socket.onmessage on the current socket
OnMessageEffect(r) ==
  IF r.dataStreamWSRef # NULL
  THEN [r EXCEPT !.sockets[r.dataStreamWSRef].onmessage =
                    IF r.isPlotPausedForAnalysis THEN "ingestPaused" ELSE "ingest"]
  ELSE r

\* The effects that run after a handler: those whose dependencies contain
\* connectionState (or a callback rebuilt from it) when it changed, children
\* first; the onmessage effect when isStreaming changed.
Effects(before, r) ==
  LET r1 == IF before.connectionState = r.connectionState THEN r
            ELSE ResetOnOffEffect(cleanUpSelectedChannels(r, Channels))
      r2 == IF /\ before.isStreaming = r1.isStreaming
               /\ before.isPlotPausedForAnalysis = r1.isPlotPausedForAnalysis
            THEN r1
            ELSE OnMessageEffect(r1)
      r3 == IF before.isPlotPausedForAnalysis = r2.isPlotPausedForAnalysis THEN r2
            ELSE PauseEffect(r2)
  IN IF before.connectionState = r.connectionState THEN r3
     ELSE ProviderOffEffect(r3)

\* ------------------------------------------------ LiveMonitoringProvider
resetPlotState(r) ==
  [r EXCEPT !.activePlotChannelsRef = EmptyMap,
            !.seriesDataRef = EmptyMap,
            !.channelIdToPlotInfoRef = {},
            !.availableChannels = <<>>,
            !.channelGroups = <<>>]

\* wsUrl = selectedSystemIndex.current === "Remote" ? remoteUrl : localUrl
WsUrl(sel) == IF sel = "Remote" THEN "Remote" ELSE "Local"

switchDataStreamWSConnection(r, event) ==
  LET hasOld == r.dataStreamWSRef # NULL /\ event # "Reconnect"
      closed == IF hasOld
                THEN [r EXCEPT !.sockets = CloseByPage(@, r.dataStreamWSRef),
                               !.seriesDataRef = EmptyMap]
                ELSE r
  IN IF hasOld /\ event # "SwitchConnection"
     THEN [resetPlotState(closed) EXCEPT !.dataStreamWSRef = NULL]
     ELSE IF ~hasOld /\ event = "Terminate"
     THEN resetPlotState(r)
     ELSE [closed EXCEPT
             !.sockets = Append(@, NewSocket(WsUrl(r.selectedSystemIndex))),
             !.dataStreamWSRef = Len(closed.sockets) + 1]

\* Does switchDataStreamWSConnection(event) reach "new WebSocket(wsUrl)"?
OpensSocket(r, event) ==
  LET hasOld == r.dataStreamWSRef # NULL /\ event # "Reconnect"
  IN ~(hasOld /\ event # "SwitchConnection") /\ ~(~hasOld /\ event = "Terminate")

Hello == [tabUniqueId |-> "tab"]

onopen(r, s) ==
  LET r1 == [r EXCEPT !.connectionState = r.selectedSystemIndex,
                      !.reconnectAttemptsRef = 0]
  IN IF r.selectedSystemIndex = "Remote" /\ r.sockets[s].rs = "OPEN"
     THEN [r1 EXCEPT !.sent = Append(@, [sock |-> s, msg |-> Hello])]
     ELSE r1

\* onerror without setConnectionState("Off")
onerror_KeepsState(r, s) ==
  [resetPlotState(r) EXCEPT !.reconnectTimeoutRef = NULL]

onerror(r, s) ==
  [resetPlotState([r EXCEPT !.connectionState = "Off"])
     EXCEPT !.reconnectTimeoutRef = NULL]

\* onclose without setConnectionState("Off")
onclose_KeepsState(r, s, code) ==
  LET r1 == [resetPlotState(r) EXCEPT !.isStreaming = FALSE,
                                      !.dataStreamWSRef = NULL,
                                      !.selectedSystemIndex = "Off"]
  IN IF code # CleanClose /\ r.reconnectAttemptsRef < maxReconnectAttempts
     THEN [r1 EXCEPT !.reconnectAttemptsRef = @ + 1]
     ELSE r1

\* onclose counting every abnormal close, without the maxReconnectAttempts test
onclose_Uncapped(r, s, code) ==
  LET r1 == [resetPlotState(r) EXCEPT !.connectionState = "Off",
                                      !.isStreaming = FALSE,
                                      !.dataStreamWSRef = NULL,
                                      !.selectedSystemIndex = "Off"]
  IN IF code # CleanClose
     THEN [r1 EXCEPT !.reconnectAttemptsRef = @ + 1]
     ELSE r1

onclose(r, s, code) ==
  LET r1 == [resetPlotState(r) EXCEPT !.connectionState = "Off",
                                      !.isStreaming = FALSE,
                                      !.dataStreamWSRef = NULL,
                                      !.selectedSystemIndex = "Off"]
  IN IF code # CleanClose /\ r.reconnectAttemptsRef < maxReconnectAttempts
     THEN [r1 EXCEPT !.reconnectAttemptsRef = @ + 1]
     ELSE r1

\* ------------------------------------------------------------ Monitoring
\* handleSystemChange(event, requestedSystem): the ToggleButtonGroup
handleSystemChange(requestedSystem) ==
  /\ NoEventInProgress
  /\ requestedSystem # connectionState
  /\ selectedSystemIndex # requestedSystem
  /\ LET event == IF requestedSystem = "Off" THEN "Terminate"
                  ELSE "SwitchConnection"
         r0 == [Cur EXCEPT !.selectedSystemIndex = requestedSystem]
     IN /\ OpensSocket(r0, event) => Len(sockets) < MaxSockets
        /\ Commit(Effects(Cur, switchDataStreamWSConnection(r0, event)),
                  "handleSystemChange", NULL, requestedSystem)

\* switchDataStreamWSConnection(click event): the exported callback used as a
\* plain "close the current socket" handler
Disconnect ==
  /\ NoEventInProgress
  /\ dataStreamWSRef # NULL
  /\ Commit(Effects(Cur, switchDataStreamWSConnection(Cur, "click")),
            "Disconnect", NULL, NULL)

\* ------------------------------------------------------- socket events
WSOpen(s) ==
  /\ NoEventInProgress
  /\ sockets[s].rs = "CONNECTING"
  /\ LET r0 == [Cur EXCEPT !.sockets[s].rs = "OPEN"]
     IN Commit(Effects(Cur, onopen(r0, s)), "onopen", s, NULL)

WSError(s) ==
  /\ NoEventInProgress
  /\ sockets[s].rs \in {"CONNECTING", "OPEN", "ABORTING"}
  /\ LET r0 == [Cur EXCEPT !.sockets[s].rs = "ERRORED"]
     IN Commit(Effects(Cur, onerror(r0, s)), "onerror", s, NULL)

\* The close code the browser reports: 1006 after a failure, the page's own
\* 1000 after its close handshake, the server's code when the server closes.
CloseCodes(rs) ==
  IF rs = "ERRORED" THEN {AbnormalClosure}
  ELSE IF rs = "CLOSING" THEN {CleanClose}
  ELSE IF rs = "OPEN" THEN {CleanClose, GoingAway}
  ELSE {}

WSClose(s, code) ==
  /\ NoEventInProgress \/ sockets[s].rs = "ERRORED"
  /\ code \in CloseCodes(sockets[s].rs)
  /\ LET r0 == [Cur EXCEPT !.sockets[s].rs = "CLOSED"]
     IN Commit(Effects(Cur, Drop(onclose(r0, s, code), s)), "onclose", s, code)

\* ------------------------------------------------------- frame decoding
\* A frame as the producer lays it out: a 6-byte frame header (channel count
\* at byte 4), then per block 22 header bytes and 4 bytes per sample.
dataSize == 4
BlockHeaderSize == 22
FrameHeaderSize == 6
epochTime_1904 == 2082844801
bufferTimeWindow == 5

\* DataBytePosition
PosDataCount == 6
PosPayload == 28

RECURSIVE BlockBase(_, _)
\* cursor value at which block j of the frame starts
BlockBase(frame, j) ==
  IF j = 1 THEN 0
  ELSE BlockBase(frame, j - 1)
         + BlockHeaderSize + dataSize * Len(frame.blocks[j - 1].payload)

ByteLength(frame) ==
  LET m == Len(frame.blocks)
  IN IF m = 0 THEN FrameHeaderSize
     ELSE BlockBase(frame, m) + PosPayload
            + dataSize * Len(frame.blocks[m].payload)

\* a DataView read past the end of the buffer throws a RangeError
RangeError == [ok |-> FALSE]
\* bytes that are not the field the reader expects decode to some value
Garbage == [ok |-> TRUE, dataCount |-> 0, channelID |-> 0, timeStamp |-> 0,
            timeDelta |-> 1]

\* the four header reads of one loop iteration, at fixed offsets from the cursor
ReadHeader(frame, byteOffset) ==
  IF byteOffset + PosPayload > ByteLength(frame) THEN RangeError
  ELSE LET js == {j \in 1..Len(frame.blocks) : BlockBase(frame, j) = byteOffset}
       IN IF js = {} THEN Garbage
          ELSE LET b == frame.blocks[CHOOSE j \in js : TRUE]
               IN [ok |-> TRUE,
                   dataCount |-> b.dataCount, channelID |-> b.channelID,
                   timeStamp |-> b.timeStamp, timeDelta |-> b.timeDelta]

\* dataView.getFloat32(byteOffset + DataBytePosition.Payload, true)
ReadSample(frame, byteOffset) ==
  LET at == byteOffset + PosPayload
      hit == {<<j, k>> \in (1..Len(frame.blocks)) \X (0..3) :
                /\ k < Len(frame.blocks[j].payload)
                /\ BlockBase(frame, j) + PosPayload + dataSize * k = at}
  IN IF at + dataSize > ByteLength(frame) THEN RangeError
     ELSE IF hit = {} THEN [ok |-> TRUE, value |-> 0]
     ELSE LET jk == CHOOSE x \in hit : TRUE
          IN [ok |-> TRUE, value |-> frame.blocks[jk[1]].payload[jk[2] + 1]]

\* Monitoring keeps its own isZoomedRefs ({main: false}) and channelChartRef
\* ({main: null}); nothing in Monitoring writes to either.
\* channelChartRef.current[channelID] || "main", "main" being the chart of the
\* pool (droppable 0)
MonitoringChart(channelID) == 0

\* isZoomedRefs.current[channelChartRef.current[channelID] || "main"]
MonitoringIsZoomed(channelID) == FALSE

\* dataPoints.slice(-count) for a non-negative real count given as num / den
SliceLast(points, num, den) ==
  LET keep == num \div den
  IN IF keep = 0 \/ keep >= Len(points) THEN points
     ELSE SubSeq(points, Len(points) - keep + 1, Len(points))

\* retention after the samples of one block have been appended
Retain(points, channelID, timeDelta) ==
  LET currentDataCount == Len(points)
  IN IF currentDataCount * timeDelta > bufferTimeWindow
     THEN IF ~MonitoringIsZoomed(channelID)
          THEN SliceLast(points, bufferTimeWindow, timeDelta)
          ELSE IF currentDataCount * timeDelta > 180
               THEN SliceLast(points, 180, timeDelta)
               ELSE points
     ELSE points

\* updateDataPoints pushing the new point at the front of dataPoints
updateDataPoints_Front(r, inTime, key, newValue) ==
  [r EXCEPT !.activePlotChannelsRef[key] = <<[x |-> inTime, y |-> newValue]>> \o @]

\* updateDataPoints(inTime, key, newValue): x is the Date of inTime seconds,
\* kept here as the number of seconds
updateDataPoints(r, inTime, key, newValue) ==
  [r EXCEPT !.activePlotChannelsRef[key] = Append(@, [x |-> inTime, y |-> newValue])]

\* the inner loops: st = [r, byteOffset, thrown, t]
RECURSIVE ContinuousSamples(_, _, _, _, _)
ContinuousSamples(st, frame, channelID, timeDelta, left) ==
  IF left = 0 THEN st
  ELSE LET data == ReadSample(frame, st.byteOffset)
       IN IF ~data.ok THEN [st EXCEPT !.thrown = TRUE]
          ELSE ContinuousSamples(
                 [st EXCEPT
                    !.r = updateDataPoints(@, st.t, channelID, data.value),
                    !.byteOffset = @ + dataSize,
                    !.t = @ + timeDelta],
                 frame, channelID, timeDelta, left - 1)

\* the discrete state taken as HIGH for every sample that is not 0
DiscreteState_NonZero(data) == IF data # 0 THEN "HIGH" ELSE "LOW"

\* data === 1 ? "HIGH" : "LOW"
DiscreteState(data) == IF data = 1 THEN "HIGH" ELSE "LOW"

RECURSIVE DiscreteSamples(_, _, _, _)
DiscreteSamples(st, frame, channelID, left) ==
  IF left = 0 THEN st
  ELSE LET data == ReadSample(frame, st.byteOffset)
       IN IF ~data.ok THEN [st EXCEPT !.thrown = TRUE]
          ELSE DiscreteSamples(
                 [st EXCEPT
                    !.r.activeDiscreteChannelsRef[channelID] =
                       DiscreteState(data.value),
                    !.byteOffset = @ + dataSize],
                 frame, channelID, left - 1)

\* the epoch test taken with >= in place of >
DataPointTime_AtOrAfter(timeStamp) ==
  IF timeStamp >= epochTime_1904 THEN timeStamp - epochTime_1904 ELSE timeStamp

\* let dataPointTime = timeStamp > epochTime_1904 ? timeStamp - epochTime_1904 : timeStamp
DataPointTime(timeStamp) ==
  IF timeStamp > epochTime_1904 THEN timeStamp - epochTime_1904 ELSE timeStamp

\* the skip of an unwanted block stepping over its header only
SkipBlock_HeaderOnly(st, dataCount) ==
  [st EXCEPT !.byteOffset = @ + BlockHeaderSize]

\* the skip of an unwanted block stepping over its payload only
SkipBlock_PayloadOnly(st, dataCount) ==
  [st EXCEPT !.byteOffset = @ + dataSize * dataCount]

\* byteOffset += dataSize * dataCount + 22: a block of a channel that is in
\* neither map
SkipBlock(st, dataCount) ==
  [st EXCEPT !.byteOffset = @ + dataSize * dataCount + BlockHeaderSize]

\* one iteration of the for loop over chnl_count
DecodeBlock(st, frame) ==
  LET h == ReadHeader(frame, st.byteOffset)
  IN IF ~h.ok THEN [st EXCEPT !.thrown = TRUE]
     ELSE IF h.channelID \notin DOMAIN st.r.activePlotChannelsRef
     THEN IF h.channelID \in DOMAIN st.r.activeDiscreteChannelsRef
          THEN LET d == DiscreteSamples(st, frame, h.channelID, h.dataCount)
               IN IF d.thrown THEN d
                  ELSE [d EXCEPT !.byteOffset = @ + BlockHeaderSize]
          ELSE SkipBlock(st, h.dataCount)
     ELSE LET dataPointTime == DataPointTime(h.timeStamp)
              c == ContinuousSamples([st EXCEPT !.t = dataPointTime], frame,
                                     h.channelID, h.timeDelta, h.dataCount)
          IN IF c.thrown THEN c
             ELSE [c EXCEPT
                     !.byteOffset = @ + BlockHeaderSize,
                     !.r.activePlotChannelsRef[h.channelID] =
                        Retain(@, h.channelID, h.timeDelta)]

RECURSIVE DecodeBlocks(_, _, _)
DecodeBlocks(st, frame, left) ==
  IF left = 0 \/ st.thrown THEN st
  ELSE DecodeBlocks(DecodeBlock(st, frame), frame, left - 1)

\* processWebSocketMessage(arrayBuffer): the state it leaves behind, also
\* when a DataView read throws part-way
processWebSocketMessage(r, frame) ==
  DecodeBlocks([r |-> r, byteOffset |-> 0, thrown |-> FALSE, t |-> 0],
               frame, frame.channelCount).r

\* ------------------------------------------------- subscription request
\* getDynamicChannelList building discreteChannels from activePlotChannelsRef too
getDynamicChannelList_PlotTwice(r) ==
  Keys(DOMAIN r.activePlotChannelsRef) \o Keys(DOMAIN r.activePlotChannelsRef)

getDynamicChannelList(r) ==
  Keys(DOMAIN r.activeDiscreteChannelsRef) \o Keys(DOMAIN r.activePlotChannelsRef)

\* formatAndSendReq without the readyState test
formatAndSendReq_Unchecked(r, ws, request) ==
  [r EXCEPT !.sent = Append(@, [sock |-> ws, msg |-> request])]

\* useDataStreamRequester.formatAndSendReq(ws, request)
formatAndSendReq(r, ws, request) ==
  IF r.sockets[ws].rs = "OPEN"
  THEN [r EXCEPT !.sent = Append(@, [sock |-> ws, msg |-> request])]
  ELSE r

DynamicChannelRequest(channelsToReq, userName) ==
  [commandId |-> "0XAB",
   tabIdLength |-> 36,
   finalChannelCount |-> Len(channelsToReq),
   channelList |-> channelsToReq,
   tabUniqueId |-> "tab",
   userName |-> userName]

\* sendDynamicChannelRequest with "channelsToReq.length > 1"
sendDynamicChannelRequest_MoreThanOne(r, userName) ==
  IF r.connectionState # "Off" /\ r.dataStreamWSRef # NULL
  THEN LET channelsToReq == getDynamicChannelList(r)
       IN IF Len(channelsToReq) > 1
          THEN formatAndSendReq(r, r.dataStreamWSRef,
                                DynamicChannelRequest(channelsToReq, userName))
          ELSE r
  ELSE r

sendDynamicChannelRequest(r, userName) ==
  IF r.connectionState # "Off" /\ r.dataStreamWSRef # NULL
  THEN LET channelsToReq == getDynamicChannelList(r)
       IN IF Len(channelsToReq) > 0
          THEN formatAndSendReq(r, r.dataStreamWSRef,
                                DynamicChannelRequest(channelsToReq, userName))
          ELSE r
  ELSE r

\* ----------------------------------------------------------------- Plots
GroupChannels(groups) ==
  UNION {Range(groups[i].channels) : i \in 1..Len(groups)}

\* handlePlotChannelSelect leaving the members of the groups as they are
handlePlotChannelSelect_KeepsGroups(r, selectedChannels) ==
  LET sel == Range(selectedChannels)
      fresh == {NumericId(v) : v \in sel} \cap r.channelIdToPlotInfoRef
      active == [k \in DOMAIN r.activePlotChannelsRef \cup fresh |->
                   IF k \in DOMAIN r.activePlotChannelsRef
                   THEN r.activePlotChannelsRef[k] ELSE <<>>]
      assignedChannels == GroupChannels(r.channelGroups)
      InSelected(ch) == ch \in sel
      newAvailable == SelectSeq(r.availableChannels, InSelected)
      IsNew(ch) == ch \notin assignedChannels /\ ch \notin Range(newAvailable)
      newChannels == SelectSeq(selectedChannels, IsNew)
  IN [r EXCEPT
        !.activePlotChannelsRef = active,
        !.availableChannels = SortValues(newAvailable \o newChannels)]

handlePlotChannelSelect(r, selectedChannels) ==
  LET sel == Range(selectedChannels)
      fresh == {NumericId(v) : v \in sel} \cap r.channelIdToPlotInfoRef
      active == [k \in DOMAIN r.activePlotChannelsRef \cup fresh |->
                   IF k \in DOMAIN r.activePlotChannelsRef
                   THEN r.activePlotChannelsRef[k] ELSE <<>>]
      assignedChannels == GroupChannels(r.channelGroups)
      InSelected(ch) == ch \in sel
      newAvailable == SelectSeq(r.availableChannels, InSelected)
      IsNew(ch) == ch \notin assignedChannels /\ ch \notin Range(newAvailable)
      newChannels == SelectSeq(selectedChannels, IsNew)
  IN [r EXCEPT
        !.activePlotChannelsRef = active,
        !.availableChannels = SortValues(newAvailable \o newChannels),
        !.channelGroups =
           [i \in 1..Len(r.channelGroups) |->
              [r.channelGroups[i] EXCEPT !.channels = SelectSeq(@, InSelected)]]]

addChannelToTargetGroup(prevGroups, channelId, destId) ==
  [i \in 1..Len(prevGroups) |->
     IF prevGroups[i].id = destId /\ channelId \notin Range(prevGroups[i].channels)
     THEN [prevGroups[i] EXCEPT !.channels = Append(@, channelId)]
     ELSE prevGroups[i]]

deleteChannelFromSourceGroup(prevGroups, channelId, sourceId) ==
  LET Other(ch) == ch # channelId
  IN [i \in 1..Len(prevGroups) |->
        IF prevGroups[i].id = sourceId
        THEN [prevGroups[i] EXCEPT !.channels = SelectSeq(@, Other)]
        ELSE prevGroups[i]]

\* droppableId "available-channels" is the pool; a group's droppableId is its id
AvailableChannelsId == 0
NoDestination == 0 - 1

\* handleDragEnd without deleteChannelFromSourceGroup on a group-to-group move
handleDragEnd_KeepsSource(r, channelId, sourceId, destId) ==
  LET Other(ch) == ch # channelId
  IN IF destId = NoDestination \/ sourceId = destId THEN r
     ELSE IF sourceId = AvailableChannelsId
     THEN [r EXCEPT
             !.availableChannels = SelectSeq(@, Other),
             !.channelGroups = addChannelToTargetGroup(@, channelId, destId)]
     ELSE IF destId = AvailableChannelsId
     THEN [r EXCEPT
             !.availableChannels = SortValues(Append(@, channelId)),
             !.channelGroups = deleteChannelFromSourceGroup(@, channelId, sourceId)]
     ELSE [r EXCEPT
             !.channelGroups = addChannelToTargetGroup(@, channelId, destId)]

handleDragEnd(r, channelId, sourceId, destId) ==
  LET Other(ch) == ch # channelId
  IN IF destId = NoDestination \/ sourceId = destId THEN r
     ELSE IF sourceId = AvailableChannelsId
     THEN [r EXCEPT
             !.availableChannels = SelectSeq(@, Other),
             !.channelGroups = addChannelToTargetGroup(@, channelId, destId)]
     ELSE IF destId = AvailableChannelsId
     THEN [r EXCEPT
             !.availableChannels = SortValues(Append(@, channelId)),
             !.channelGroups = deleteChannelFromSourceGroup(@, channelId, sourceId)]
     ELSE [r EXCEPT
             !.channelGroups =
                deleteChannelFromSourceGroup(
                  addChannelToTargetGroup(@, channelId, destId),
                  channelId, sourceId)]

\* uuidv4(): an id no group on the page has
Uuid(groups) ==
  CHOOSE uid \in 1..(Len(groups) + 1) :
    /\ \A i \in 1..Len(groups) : groups[i].id # uid
    /\ \A other \in 1..(uid - 1) : \E i \in 1..Len(groups) : groups[i].id = other

createNewGroup(r) ==
  [r EXCEPT !.channelGroups = Append(@, [id |-> Uuid(r.channelGroups),
                                         channels |-> <<>>])]

\* removeChannelFromGroup without the setAvailableChannels call
removeChannelFromGroup_NoPool(r, groupId, channel) ==
  [r EXCEPT !.channelGroups = deleteChannelFromSourceGroup(@, channel, groupId)]

removeChannelFromGroup(r, groupId, channel) ==
  LET Other(ch) == ch # channel
  IN IF \E i \in 1..Len(r.channelGroups) : r.channelGroups[i].id = groupId
     THEN [r EXCEPT
             !.channelGroups = deleteChannelFromSourceGroup(@, channel, groupId),
             !.availableChannels = SortValues(Append(@, channel))]
     ELSE r

\* deleteGroup without the setAvailableChannels call
deleteGroup_DropsMembers(r, groupId) ==
  LET NotIt(g) == g.id # groupId
  IN [r EXCEPT !.channelGroups = SelectSeq(@, NotIt)]

deleteGroup(r, groupId) ==
  LET NotIt(g) == g.id # groupId
      members == UNION {IF r.channelGroups[i].id = groupId
                        THEN {r.channelGroups[i].channels} ELSE {} :
                        i \in 1..Len(r.channelGroups)}
  IN [r EXCEPT
        !.availableChannels =
           IF members = {} THEN @
           ELSE SortValues(@ \o (CHOOSE m \in members : TRUE)),
        !.channelGroups = SelectSeq(@, NotIt)]

\* -------------------------------------------------- CascadingMultiSelect
\* LiveDataTable.handleChannelSelect: the onChannelSelect of the table view
handleChannelSelect(r, channels) ==
  LET fresh == {NumericId(v) : v \in Range(channels)} \cap r.channelIdToPlotInfoRef
  IN [r EXCEPT
        !.activePlotChannelsRef =
           [k \in DOMAIN r.activePlotChannelsRef \cup fresh |->
              IF k \in DOMAIN r.activePlotChannelsRef
              THEN r.activePlotChannelsRef[k] ELSE <<>>]]

updateChannelsToPlot(r, opt) ==
  [r EXCEPT !.channelIdToPlotInfoRef = @ \cup {opt}]

RECURSIVE ForEachOption(_, _)
ForEachOption(r, opts) ==
  IF opts = <<>> THEN r
  ELSE ForEachOption(updateChannelsToPlot(r, Head(opts)), Tail(opts))

handleStreamButtonClick(r) ==
  LET r1 == ForEachOption(r, Keys(r.selectedOptions))
      r2 == cleanUpSelectedChannels(r1, r.selectedOptions)
      channelValues == [i \in 1..Cardinality(r2.channelIdToPlotInfoRef) |->
                          ChannelValue(Keys(r2.channelIdToPlotInfoRef)[i])]
      r3 == IF r.dashboard = "Plots"
            THEN handlePlotChannelSelect(r2, channelValues)
            ELSE handleChannelSelect(r2, channelValues)
      r4 == [r3 EXCEPT !.isStreaming = TRUE, !.isChannelListChanged = FALSE]
  IN sendDynamicChannelRequest(r4, "user")

\* ------------------------------------------------------------ user steps
\* The dashboard-settings panel of Plots (CascadingMultiSelect and
\* PlotGroupSelection) is shown throughout.
\* react-select onChange; the control is disabled while the connection is Off
handleChannelChange(selected) ==
  /\ NoEventInProgress
  /\ connectionState # "Off"
  /\ selected # selectedOptions
  /\ Commit([Cur EXCEPT !.selectedOptions = selected,
                        !.isChannelListChanged = (selected # {})],
            "handleChannelChange", NULL, NULL)

\* The Stream / Update button; disabled = Off || (isStreaming && !changed)
StreamButtonClick ==
  /\ NoEventInProgress
  /\ ~(connectionState = "Off" \/ (isStreaming /\ ~isChannelListChanged))
  /\ Commit(Effects(Cur, handleStreamButtonClick(Cur)),
            "handleStreamButtonClick", NULL, NULL)

CreateGroup ==
  /\ NoEventInProgress
  /\ Len(channelGroups) < MaxGroups
  /\ Commit(createNewGroup(Cur), "createNewGroup", NULL, NULL)

GroupIds == {channelGroups[i].id : i \in 1..Len(channelGroups)}

\* the droppables that show the chip of channel ch
BucketsOf(groups, pool, ch) ==
  (IF ch \in Range(pool) THEN {AvailableChannelsId} ELSE {})
    \cup {groups[i].id : i \in {j \in 1..Len(groups) : ch \in Range(groups[j].channels)}}

\* react-beautiful-dnd: a chip is dragged out of the droppable that shows it
\* and dropped on a droppable (or outside of all: destination null)
DragEnd(ch, sourceId, destId) ==
  /\ NoEventInProgress
  /\ sourceId \in BucketsOf(channelGroups, availableChannels, ch)
  /\ destId \in {NoDestination, AvailableChannelsId} \cup GroupIds
  /\ Commit(handleDragEnd(Cur, ch, sourceId, destId), "handleDragEnd", NULL, destId)

RemoveChannelFromGroup(g, ch) ==
  /\ NoEventInProgress
  /\ g \in GroupIds
  /\ g \in BucketsOf(channelGroups, availableChannels, ch)
  /\ Commit(removeChannelFromGroup(Cur, g, ch), "removeChannelFromGroup", NULL, NULL)

DeleteGroup(g) ==
  /\ NoEventInProgress
  /\ g \in GroupIds
  /\ Commit(deleteGroup(Cur, g), "deleteGroup", NULL,
            CHOOSE group \in Range(channelGroups) : group.id = g)

\* ------------------------------------------------------ inbound frames
Block(ch, ts, delta, payload) ==
  [dataCount |-> Len(payload), channelID |-> ch, timeStamp |-> ts,
   timeDelta |-> delta, payload |-> payload]

\* the frames the server sends in this model
Frames ==
  {[channelCount |-> 1, blocks |-> <<Block(1, 10, 5, <<1>>)>>],
   [channelCount |-> 1, blocks |-> <<Block(2, 10, 5, <<1>>)>>]}

MaxReaders == 1

\* socket.onmessage as installed by Monitoring: start a FileReader on the Blob
WSMessage(s, frame) ==
  /\ NoEventInProgress
  /\ sockets[s].rs = "OPEN"
  /\ sockets[s].onmessage # "noop"
  /\ Len(readers) < MaxReaders
  /\ Commit([Cur EXCEPT !.readers =
                Append(@, [frame |-> frame,
                           paused |-> sockets[s].onmessage = "ingestPaused"])],
            "onmessage", s, NULL)

\* reader.onload
ReaderLoad(i) ==
  /\ NoEventInProgress
  /\ i \in 1..Len(readers)
  /\ LET r0 == [Cur EXCEPT !.readers = Remove(@, i)]
     IN Commit(IF readers[i].paused THEN r0
               ELSE processWebSocketMessage(r0, readers[i].frame),
               "onload", NULL, readers[i].frame)

ChannelValues == {ChannelValue(c) : c \in Channels}

\* Connection lifecycle, channel selection and ingestion; the user creates
\* no group.
Next ==
  \/ \E req \in ConnectionType : handleSystemChange(req)
  \/ Disconnect
  \/ \E selected \in SUBSET Channels : handleChannelChange(selected)
  \/ StreamButtonClick
  \/ \E s \in SocketIds : \E frame \in Frames : WSMessage(s, frame)
  \/ \E i \in 1..MaxReaders : ReaderLoad(i)
  \/ \E s \in SocketIds : WSOpen(s)
  \/ \E s \in SocketIds : WSError(s)
  \/ \E s \in SocketIds : \E code \in {CleanClose, GoingAway, AbnormalClosure} :
       WSClose(s, code)

Spec == Init /\ [][Next]_vars

\* Routing of channels into the pool and the groups, with the connection
\* driven by the system toggle over sockets that do not fail and carry no
\* frame.
NextRoute ==
  \/ \E req \in ConnectionType : handleSystemChange(req)
  \/ Disconnect
  \/ \E selected \in SUBSET Channels : handleChannelChange(selected)
  \/ StreamButtonClick
  \/ CreateGroup
  \/ \E ch \in ChannelValues : \E src \in 0..MaxGroups :
       \E dst \in (0 - 1)..MaxGroups : DragEnd(ch, src, dst)
  \/ \E g \in 1..MaxGroups : \E ch \in ChannelValues : RemoveChannelFromGroup(g, ch)
  \/ \E g \in 1..MaxGroups : DeleteGroup(g)
  \/ \E s \in SocketIds : WSOpen(s)
  \/ \E s \in SocketIds : WSClose(s, CleanClose)

SpecRoute == Init /\ [][NextRoute]_vars

\* ---------------------------------------------------- pause for analysis
\* Plots.handlePauseForAnalysis: the pause handle of a chart
handlePauseForAnalysis ==
  /\ NoEventInProgress
  /\ dashboard = "Plots"
  /\ Commit(Effects(Cur, [Cur EXCEPT !.isPlotPausedForAnalysis = ~@]),
            "handlePauseForAnalysis", NULL, NULL)

\* ------------------------------------------------------ dashboard views
\* The Plots and Table View items of the drawer menu. A click on the item of
\* the other view unmounts the view shown and mounts the other one with a new
\* CascadingMultiSelect (empty selection, then its mount effects once the
\* channel list is fetched) and, for Plots, new isZoomedRefs; Monitoring
\* installs onmessage again since processWebSocketMessage depends on dashboard.
SetDashboard(d) ==
  /\ NoEventInProgress
  /\ LET r0 == [Cur EXCEPT !.dashboard = d, !.activeDiscreteChannelsRef = EmptyMap]
         r1 == [r0 EXCEPT !.selectedOptions = {},
                          !.isChannelListChanged = FALSE,
                          !.isZoomedRefs = FALSE]
         r2 == OnMessageEffect(ResetOnOffEffect(cleanUpSelectedChannels(r1, Channels)))
     IN Commit(IF d = dashboard THEN r0 ELSE r2, "setDashboard", NULL, d)

DashboardType == {"Plots", "Table"}

\* Channel selection from the plots view and from the table view over
\* sockets that do not fail, with ingestion; the user creates no group.
NextViews ==
  \/ \E req \in ConnectionType : handleSystemChange(req)
  \/ \E d \in DashboardType : SetDashboard(d)
  \/ \E selected \in SUBSET Channels : handleChannelChange(selected)
  \/ StreamButtonClick
  \/ \E s \in SocketIds : \E frame \in Frames : WSMessage(s, frame)
  \/ \E i \in 1..MaxReaders : ReaderLoad(i)
  \/ \E s \in SocketIds : WSOpen(s)
  \/ \E s \in SocketIds : WSClose(s, CleanClose)

SpecViews == Init /\ [][NextViews]_vars

\* ---------------------------------------------------- the decoder alone
\* the entries the discrete dashboard keeps in activeDiscreteChannelsRef for
\* the discrete channels it shows
DiscreteEntries(disc) == [c \in disc |-> "LOW"]

\* The page is connected to Local and streaming; the channels of plot were
\* selected for plotting and sit in the pool, the channels of disc are
\* tracked as discrete, the remaining channels are unwanted.
InitDecode ==
  \E plot \in SUBSET Channels : \E disc \in SUBSET (Channels \ plot) :
    /\ connectionState = "Local"
    /\ selectedSystemIndex = "Local"
    /\ dataStreamWSRef = 1
    /\ sockets = <<[NewSocket("Local") EXCEPT !.rs = "OPEN", !.onmessage = "ingest"]>>
    /\ reconnectAttemptsRef = 0
    /\ reconnectTimeoutRef = NULL
    /\ activePlotChannelsRef = [c \in plot |-> <<>>]
    /\ seriesDataRef = EmptyMap
    /\ channelIdToPlotInfoRef = plot
    /\ activeDiscreteChannelsRef = DiscreteEntries(disc)
    /\ availableChannels = [i \in 1..Cardinality(plot) |-> ChannelValue(Keys(plot)[i])]
    /\ channelGroups = <<>>
    /\ isStreaming = TRUE
    /\ readers = <<>>
    /\ selectedOptions = plot
    /\ isChannelListChanged = FALSE
    /\ dashboard = "Plots"
    /\ isZoomedRefs = FALSE
    /\ isPlotPausedForAnalysis = FALSE
    /\ lastEvent = Evt("init", NULL, NULL, <<>>, FALSE, plot # {}, plot)

\* the frames the server sends to the decoder: one block, two blocks, time
\* stamps below, at and above epochTime_1904, intervals below and above
\* bufferTimeWindow, and frames cut short
DecodeFrames ==
  LET one(b) == [channelCount |-> 1, blocks |-> <<b>>]
  IN {one(Block(ch, 10, 2, <<1, 2>>)) : ch \in Channels}
       \cup {one(Block(ch, epochTime_1904 + 100, 2, <<1>>)) : ch \in Channels}
       \cup {one(Block(ch, epochTime_1904, 2, <<2>>)) : ch \in Channels}
       \cup {one(Block(ch, 10, 6, <<1>>)) : ch \in Channels}
       \cup {one(Block(ch, 10, 2, <<>>)) : ch \in Channels}
       \cup {[channelCount |-> 2,
              blocks |-> <<Block(a, 10, 2, <<1>>), Block(b, 20, 2, <<2, 1>>)>>] :
                <<a, b>> \in {p \in Channels \X Channels : p[1] # p[2]}}
       \cup {[channelCount |-> 2, blocks |-> <<Block(ch, 10, 2, <<1>>)>>] :
                ch \in Channels}
       \cup {[channelCount |-> 2,
              blocks |-> <<Block(a, 10, 2, <<1>>),
                           [Block(b, 20, 2, <<2>>) EXCEPT !.dataCount = 2]>>] :
                <<a, b>> \in {p \in Channels \X Channels : p[1] # p[2]}}

MaxBuffered == 3

RECURSIVE TotalBuffered(_, _)
TotalBuffered(buffers, ids) ==
  IF ids = {} THEN 0
  ELSE LET c == CHOOSE x \in ids : TRUE
       IN Len(buffers[c]) + TotalBuffered(buffers, ids \ {c})

\* the server stops sending while MaxBuffered points are held
ServerSends(frame) ==
  /\ TotalBuffered(activePlotChannelsRef, DOMAIN activePlotChannelsRef) < MaxBuffered
  /\ \E s \in SocketIds : WSMessage(s, frame)

\* chart.options.rangeChanged of the main chart, as installed by Plots
rangeChanged(isZoomed) ==
  /\ NoEventInProgress
  /\ dashboard = "Plots"
  /\ Commit([Cur EXCEPT !.isZoomedRefs = isZoomed], "rangeChanged", NULL, isZoomed)

NextDecode ==
  \/ \E frame \in DecodeFrames : ServerSends(frame)
  \/ \E i \in 1..MaxReaders : ReaderLoad(i)
  \/ \E isZoomed \in BOOLEAN : rangeChanged(isZoomed)

SpecDecode == InitDecode /\ [][NextDecode]_vars

\* The decoder of a connected, streaming page whose user pauses and resumes
\* while frames arrive.
NextPause ==
  \/ \E frame \in Frames : ServerSends(frame)
  \/ \E i \in 1..MaxReaders : ReaderLoad(i)
  \/ handlePauseForAnalysis

SpecPause == InitDecode /\ [][NextPause]_vars

TypeOK ==
  /\ connectionState \in ConnectionType
  /\ reconnectAttemptsRef \in 0..maxReconnectAttempts

\* ================================================================ claims
Count(s, v) == Cardinality({i \in 1..Len(s) : s[i] = v})

RECURSIVE CountInGroups(_, _)
CountInGroups(groups, v) ==
  IF groups = <<>> THEN 0
  ELSE Count(Head(groups).channels, v) + CountInGroups(Tail(groups), v)

\* number of chips of channel v on the page, over the pool and all groups
Chips(v) == Count(availableChannels, v) + CountInGroups(channelGroups, v)

\* C1: one-bucket invariant. Whatever sequence of select, drag, remove,
\* createGroup and deleteGroup steps has run, every wanted channel id has
\* exactly one chip: it is in the pool or in exactly one group, never in two
\* buckets and never in none.
C1_OneBucket ==
  \A id \in channelIdToPlotInfoRef \cup DOMAIN activePlotChannelsRef :
    Chips(ChannelValue(id)) = 1

\* a group-to-group move has just put a wanted channel into the second of two
\* groups while the other wanted channel sits in the pool
C1_Witness ==
  /\ lastEvent.op = "handleDragEnd"
  /\ Len(channelGroups) = 2
  /\ lastEvent.arg = channelGroups[2].id
  /\ channelGroups[1].channels = <<>>
  /\ Len(channelGroups[2].channels) = 1
  /\ Len(availableChannels) = 1
  /\ Cardinality(channelIdToPlotInfoRef) = 2

\* every continuous series buffer is absent or empty
BuffersEmpty ==
  \A k \in DOMAIN activePlotChannelsRef : activePlotChannelsRef[k] = <<>>

\* the step handles the close event of a socket that the page closed while a
\* newer socket is the current one: the old socket of a switch
OldSocketCloseStep ==
  /\ lastEvent'.op = "onclose"
  /\ lastEvent'.sock \in SocketIds
  /\ sockets[lastEvent'.sock].rs = "CLOSING"
  /\ dataStreamWSRef \notin {NULL, lastEvent'.sock}

\* the step is a SwitchConnection from Local or Remote to the other system
SwitchStep ==
  /\ lastEvent'.op = "handleSystemChange"
  /\ lastEvent'.arg # "Off"
  /\ connectionState # "Off"

\* C2: SwitchConnection keeps the routing partition. The switch and the
\* handling of the old socket's close event leave every channel in the pool
\* or group it was in and every group in existence, and after the close
\* event all series buffers are empty.
C2_SwitchKeepsRouting ==
  [][/\ SwitchStep =>
         /\ availableChannels' = availableChannels
         /\ channelGroups' = channelGroups
     /\ OldSocketCloseStep =>
         /\ BuffersEmpty'
         /\ availableChannels' = availableChannels
         /\ channelGroups' = channelGroups]_vars

\* C3: when the open event of a socket created toward target T (Local or
\* Remote) is handled, the connection state becomes T and the reconnect
\* counter 0, whether or not the close event of the socket closed just
\* before was handled first.
C3_OpenSetsTarget ==
  lastEvent.op = "onopen" =>
    /\ connectionState = sockets[lastEvent.sock].url
    /\ reconnectAttemptsRef = 0

\* the handler that ran last is Terminate (the user picked Off)
TerminateDone == lastEvent.op = "handleSystemChange" /\ lastEvent.arg = "Off"

\* C4: connection reset completeness. When a Terminate or a Disconnect has
\* been processed, every continuous series buffer is absent or empty, the
\* discrete-state map is empty, the pool and the set of groups are empty,
\* the socket reference is none and the connection state is Off.
C4_ResetComplete ==
  (TerminateDone \/ lastEvent.op = "Disconnect") =>
    /\ BuffersEmpty
    /\ activeDiscreteChannelsRef = EmptyMap
    /\ availableChannels = <<>>
    /\ channelGroups = <<>>
    /\ dataStreamWSRef = NULL
    /\ connectionState = "Off"

\* a close event is still to be delivered for some socket
ClosePending ==
  \E s \in SocketIds : sockets[s].rs \in {"CLOSING", "ABORTING", "ERRORED"}

\* C5: Terminate closes any socket. When a Terminate has been processed and
\* the close event it caused is handled, leaving no close event to deliver,
\* no socket is still connecting or open and the connection state is Off.
C5_TerminateClosesAll ==
  [][(TerminateDone /\ lastEvent'.op = "onclose" /\ ~ClosePending') =>
       /\ \A s \in 1..Len(sockets') : sockets'[s].rs \notin {"CONNECTING", "OPEN"}
       /\ connectionState' = "Off"]_vars

\* C6: handling a socket close event, whatever the close code and the value
\* of the reconnect counter, leaves all continuous series buffers empty and
\* the connection state Off.
C6_CloseResets ==
  lastEvent.op = "onclose" =>
    /\ BuffersEmpty
    /\ activePlotChannelsRef = EmptyMap
    /\ connectionState = "Off"

\* a server close with a code other than 1000 found samples in a buffer
C6_Witness ==
  /\ lastEvent.op = "onclose"
  /\ lastEvent.arg = GoingAway
  /\ lastEvent.buffered
  /\ reconnectAttemptsRef > 0

\* C7: bounded automatic reconnect. A close with a code other than 1000
\* handled while the reconnect counter is below maxReconnectAttempts
\* increments the counter by one and schedules the one reconnect attempt
\* (the retry timer is armed).
C7_ReconnectScheduled ==
  [][(/\ lastEvent'.op = "onclose"
      /\ lastEvent'.arg # CleanClose
      /\ reconnectAttemptsRef < maxReconnectAttempts) =>
       /\ reconnectAttemptsRef' = reconnectAttemptsRef + 1
       /\ reconnectTimeoutRef' # NULL]_vars

\* C8: the reconnect counter stays within 0..maxReconnectAttempts; only a
\* close with a code other than 1000 increments it (by one), only a socket
\* open resets it (to 0), and a socket is created only by the user's toggle,
\* never by the engine on its own, so none is created automatically once the
\* counter is at the maximum.
C8_CounterBounded ==
  /\ [](reconnectAttemptsRef \in 0..maxReconnectAttempts)
  /\ [][/\ reconnectAttemptsRef' > reconnectAttemptsRef =>
            /\ lastEvent'.op = "onclose"
            /\ lastEvent'.arg # CleanClose
            /\ reconnectAttemptsRef' = reconnectAttemptsRef + 1
        /\ reconnectAttemptsRef' < reconnectAttemptsRef =>
            /\ lastEvent'.op = "onopen"
            /\ reconnectAttemptsRef' = 0
        /\ Len(sockets') > Len(sockets) =>
            lastEvent'.op = "handleSystemChange"]_vars

\* an abnormal close has been handled with the counter at the maximum while
\* another socket is still connecting
C8_Witness ==
  /\ reconnectAttemptsRef = maxReconnectAttempts
  /\ lastEvent.op = "onclose"
  /\ lastEvent.arg = AbnormalClosure
  /\ \E s \in SocketIds : sockets[s].rs = "CONNECTING"

\* C9: handling a socket error event sets the connection state to Off,
\* discards every continuous series buffer and leaves no reconnect timer
\* pending.
C9_ErrorResets ==
  lastEvent.op = "onerror" =>
    /\ connectionState = "Off"
    /\ BuffersEmpty
    /\ activePlotChannelsRef = EmptyMap
    /\ reconnectTimeoutRef = NULL

\* the error of an open socket found samples in a buffer
C9_Witness ==
  /\ lastEvent.op = "onerror"
  /\ lastEvent.buffered
  /\ \E s \in SocketIds : sockets[s].rs = "ERRORED" /\ lastEvent.sock = s

\* the wanted set: the channel ids the engine wants the producer to stream
Wanted == DOMAIN activeDiscreteChannelsRef \cup DOMAIN activePlotChannelsRef

\* the connection is not Off and the current socket is open
Connected ==
  /\ connectionState # "Off"
  /\ dataStreamWSRef \in SocketIds
  /\ sockets[dataStreamWSRef].rs = "OPEN"

IsRequest(msg) == "commandId" \in DOMAIN msg

\* C11: every emitted subscription request has commandId "0XAB",
\* tabIdLength 36, the tab's unique id, a channelList holding exactly the
\* wanted ids (continuous and discrete), each once, and finalChannelCount
\* equal to the number of wanted ids.
C11_RequestFormat ==
  \A i \in 1..Len(lastEvent.sent) :
    LET msg == lastEvent.sent[i].msg
    IN IsRequest(msg) =>
         /\ msg.commandId = "0XAB"
         /\ msg.tabIdLength = 36
         /\ msg.tabUniqueId = Hello.tabUniqueId
         /\ Range(msg.channelList) = Wanted
         /\ Len(msg.channelList) = Cardinality(Wanted)
         /\ msg.finalChannelCount = Cardinality(Wanted)

\* a request for two wanted channels has just been sent
C11_Witness ==
  /\ Len(lastEvent.sent) = 1
  /\ IsRequest(lastEvent.sent[1].msg)
  /\ Len(lastEvent.sent[1].msg.channelList) = 2

\* the current socket exists and is not open
SocketNotOpen ==
  /\ dataStreamWSRef \in SocketIds
  /\ sockets[dataStreamWSRef].rs # "OPEN"

\* C12: emitting a subscription request while the socket is not open sends
\* nothing and changes nothing: connection state, buffers, routing and the
\* socket handle stay as they are.
C12_NoOpWhenNotOpen ==
  SocketNotOpen => sendDynamicChannelRequest(Cur, "user") = Cur

\* a Stream click with a wanted channel found the connection not Off and the
\* current socket still connecting, and sent nothing
C12_Witness ==
  /\ lastEvent.op = "handleStreamButtonClick"
  /\ connectionState # "Off"
  /\ SocketNotOpen
  /\ Wanted # {}
  /\ lastEvent.sent = <<>>


\* the counts of the frame are those of the bytes it carries
WellFormed(frame) ==
  /\ frame.channelCount = Len(frame.blocks)
  /\ \A j \in 1..Len(frame.blocks) :
       frame.blocks[j].dataCount = Len(frame.blocks[j].payload)

RECURSIVE Consumed(_, _)
\* sum over the first i blocks of 4 * n + 22
Consumed(frame, i) ==
  IF i = 0 THEN 0
  ELSE Consumed(frame, i - 1) + 4 * frame.blocks[i].dataCount + 22

\* the decoder after i iterations of its loop over the frame, started in the
\* current state
Decoded(frame, i) ==
  DecodeBlocks([r |-> Cur, byteOffset |-> 0, thrown |-> FALSE, t |-> 0], frame, i)

\* C13: cursor alignment. For every well-formed frame, the cursor after the
\* i-th block is the sum over the first i blocks of 4 * n + 22, whether the
\* blocks' channels are continuous, discrete or unwanted in the state the
\* frame is decoded in.
C13_CursorAlignment ==
  \A frame \in DecodeFrames :
    WellFormed(frame) =>
      \A i \in 0..Len(frame.blocks) :
        /\ ~Decoded(frame, i).thrown
        /\ Decoded(frame, i).byteOffset = Consumed(frame, i)

\* a two-block frame has been decoded whose first block was of a channel that
\* is not continuous and whose second block, read at the cursor the first
\* left, gave the continuous channel its two samples
C13_Witness ==
  /\ lastEvent.op = "onload"
  /\ WellFormed(lastEvent.arg)
  /\ Len(lastEvent.arg.blocks) = 2
  /\ lastEvent.arg.blocks[1].channelID \in DOMAIN activeDiscreteChannelsRef
  /\ LET ch == lastEvent.arg.blocks[2].channelID
     IN /\ ch \in DOMAIN activePlotChannelsRef
        /\ activePlotChannelsRef[ch] = <<[x |-> 20, y |-> 2], [x |-> 22, y |-> 1]>>

\* C14: malformed frame. When the counts of a frame make the decoder read
\* past the end of the buffer, the frame is dropped whole: every series
\* buffer and every discrete state is as it was before the frame arrived.
C14_MalformedFrameDropped ==
  [][(/\ lastEvent'.op = "onload"
      /\ Decoded(lastEvent'.arg, lastEvent'.arg.channelCount).thrown)
       => /\ activePlotChannelsRef' = activePlotChannelsRef
          /\ activeDiscreteChannelsRef' = activeDiscreteChannelsRef]_vars

\* the n most recent points of s, all of s when it has no more than n
LastN(s, n) ==
  IF n >= Len(s) THEN s ELSE SubSeq(s, Len(s) - n + 1, Len(s))

\* timestamp - E when timestamp > E, the timestamp itself otherwise
EpochCorrected(timeStamp) ==
  IF timeStamp <= epochTime_1904 THEN timeStamp ELSE timeStamp - epochTime_1904

\* the points a block stands for: the i-th (from 0) at t + i * d with the
\* i-th payload value
Samples(b) ==
  [i \in 1..b.dataCount |->
     [x |-> EpochCorrected(b.timeStamp) + (i - 1) * b.timeDelta, y |-> b.payload[i]]]

\* the step decodes a well-formed frame
DecodeStep ==
  /\ lastEvent'.op = "onload"
  /\ WellFormed(lastEvent'.arg)

\* the blocks of the decoded frame that are of continuous channels
ContinuousBlocks ==
  {b \in Range(lastEvent'.arg.blocks) : b.channelID \in DOMAIN activePlotChannelsRef}

\* C15: retention. After a block of a continuous channel that is not zoomed
\* has been ingested, the buffer holds the floor(W / delta) most recent of
\* the points it held and the points of the block, all of them when they are
\* no more than that, in arrival order; for delta > W that is no point.
C15_Retention ==
  [][(DecodeStep /\ ~isZoomedRefs) =>
       \A b \in ContinuousBlocks :
         activePlotChannelsRef'[b.channelID] =
           LastN(activePlotChannelsRef[b.channelID] \o Samples(b),
                 bufferTimeWindow \div b.timeDelta)]_vars

\* the same retention for intervals that do not exceed the window
RetentionWithinWindow ==
  [][(DecodeStep /\ ~isZoomedRefs) =>
       \A b \in ContinuousBlocks :
         b.timeDelta <= bufferTimeWindow =>
           activePlotChannelsRef'[b.channelID] =
             LastN(activePlotChannelsRef[b.channelID] \o Samples(b),
                   bufferTimeWindow \div b.timeDelta)]_vars

\* C16: epoch correction. The first point a block of a continuous channel
\* adds carries timestamp - E when timestamp > E and the timestamp itself
\* when timestamp <= E, E being 2082844801.
C16_EpochCorrection ==
  [][DecodeStep =>
       \A b \in ContinuousBlocks :
         LET points == activePlotChannelsRef'[b.channelID]
             first == Len(points) - b.dataCount + 1
         IN (b.dataCount >= 1 /\ first >= 1) =>
              points[first].x = IF b.timeStamp > 2082844801
                                THEN b.timeStamp - 2082844801
                                ELSE b.timeStamp]_vars

\* a block stamped E + 100 has been decoded into a point at 100
C16_Witness ==
  /\ lastEvent.op = "onload"
  /\ WellFormed(lastEvent.arg)
  /\ LET b == lastEvent.arg.blocks[1]
     IN /\ b.timeStamp = 2082844801 + 100
        /\ b.channelID \in DOMAIN activePlotChannelsRef
        /\ activePlotChannelsRef[b.channelID] # <<>>
        /\ activePlotChannelsRef[b.channelID][Len(activePlotChannelsRef[b.channelID])].x = 100

\* s is what is left of t after dropping points from its front
IsSuffix(s, t) ==
  /\ Len(s) <= Len(t)
  /\ s = SubSeq(t, Len(t) - Len(s) + 1, Len(t))

\* C20: decode append. A block of n samples for a wanted continuous channel,
\* with corrected first timestamp t and interval d, appends to the channel's
\* buffer n points, the i-th (from 0) at t + i * d with the i-th payload
\* value, in payload order: the buffer is then the old points followed by
\* these, less what retention drops from the front, and nothing is dropped
\* while the points span no more than the window. The buffers of the
\* channels the frame has no block for are unchanged.
C20_DecodeAppend ==
  [][DecodeStep =>
       /\ \A b \in ContinuousBlocks :
            LET before == activePlotChannelsRef[b.channelID]
                after == activePlotChannelsRef'[b.channelID]
            IN /\ IsSuffix(after, before \o Samples(b))
               /\ (Len(before) + b.dataCount) * b.timeDelta <= bufferTimeWindow
                    => after = before \o Samples(b)
       /\ \A ch \in DOMAIN activePlotChannelsRef :
            ch \notin {b.channelID : b \in ContinuousBlocks}
              => activePlotChannelsRef'[ch] = activePlotChannelsRef[ch]
       /\ DOMAIN activePlotChannelsRef' = DOMAIN activePlotChannelsRef]_vars

\* a block of two samples at 10 with interval 2 has given one wanted
\* channel the points (10, 1), (12, 2) while the other wanted channel has none
C20_Witness ==
  /\ lastEvent.op = "onload"
  /\ WellFormed(lastEvent.arg)
  /\ Len(lastEvent.arg.blocks) = 1
  /\ lastEvent.arg.blocks[1].payload = <<1, 2>>
  /\ DOMAIN activePlotChannelsRef = Channels
  /\ \E ch \in Channels :
       /\ ch = lastEvent.arg.blocks[1].channelID
       /\ activePlotChannelsRef[ch] = <<[x |-> 10, y |-> 1], [x |-> 12, y |-> 2]>>
       /\ \A other \in Channels \ {ch} : activePlotChannelsRef[other] = <<>>

\* C19: zoomed retention. While the main chart, which draws the channels of
\* the pool, is marked as zoomed by rangeChanged, the buffer of a pool
\* channel after an ingest holds the floor(180 / delta) most recent points
\* rather than the floor(W / delta) most recent.
C19_ZoomedRetention ==
  [][(DecodeStep /\ isZoomedRefs) =>
       \A b \in ContinuousBlocks :
         ChannelValue(b.channelID) \in Range(availableChannels) =>
           activePlotChannelsRef'[b.channelID] =
             LastN(activePlotChannelsRef[b.channelID] \o Samples(b),
                   180 \div b.timeDelta)]_vars

\* C17: every channel id that has a series buffer or a discrete state is
\* wanted, that is routed to the pool or to a group, whichever dashboard view
\* the channels were selected from.
C17_BufferedIsRouted ==
  \A id \in DOMAIN activePlotChannelsRef \cup DOMAIN activeDiscreteChannelsRef :
    Chips(ChannelValue(id)) >= 1

\* C18: remote hello. Handling the open event of a socket opened toward the
\* Remote URL sends exactly one message on that socket, the hello
\* {tabUniqueId}; handling the open event of a socket opened toward the
\* Local URL sends nothing. This is so whether or not the close event of a
\* socket closed earlier was handled first.
C18_RemoteHello ==
  lastEvent.op = "onopen" =>
    IF sockets[lastEvent.sock].url = "Remote"
    THEN lastEvent.sent = <<[sock |-> lastEvent.sock, msg |-> Hello]>>
    ELSE lastEvent.sent = <<>>

\* the blocks of the decoded frame that are of channels tracked as discrete
\* and without a series buffer
DiscreteBlocks ==
  {b \in Range(lastEvent'.arg.blocks) :
     /\ b.channelID \in DOMAIN activeDiscreteChannelsRef
     /\ b.channelID \notin DOMAIN activePlotChannelsRef}

\* C21: discrete channels keep only the latest state. A block of n >= 1
\* samples for a discrete channel leaves its state HIGH when the last sample
\* is 1 and LOW otherwise, a block of no sample leaves the state as it was,
\* and a frame of such blocks only changes no series buffer.
C21_DiscreteLatest ==
  [][DecodeStep =>
       /\ \A b \in DiscreteBlocks :
            activeDiscreteChannelsRef'[b.channelID] =
              IF b.dataCount = 0 THEN activeDiscreteChannelsRef[b.channelID]
              ELSE IF b.payload[b.dataCount] = 1 THEN "HIGH" ELSE "LOW"
       /\ ContinuousBlocks = {} => activePlotChannelsRef' = activePlotChannelsRef]_vars

\* a block of the samples 2, 1 has been decoded for a discrete channel, whose
\* state is HIGH, while the series buffers are empty
C21_Witness ==
  /\ lastEvent.op = "onload"
  /\ WellFormed(lastEvent.arg)
  /\ \E j \in 1..Len(lastEvent.arg.blocks) :
       LET b == lastEvent.arg.blocks[j]
       IN /\ b.payload = <<2, 1>>
          /\ b.channelID \in DOMAIN activeDiscreteChannelsRef
          /\ activeDiscreteChannelsRef[b.channelID] = "HIGH"
  /\ BuffersEmpty

\* C22: resume clears the buffers. The step that takes the pause-for-analysis
\* flag from paused to not paused leaves every continuous series buffer
\* empty, so no point held during the pause is in a buffer when frames
\* received after the resume are appended.
C22_ResumeClears ==
  [][(isPlotPausedForAnalysis /\ ~isPlotPausedForAnalysis') => BuffersEmpty']_vars

\* the user has resumed while a buffer held points, and the buffers are empty
C22_Witness ==
  /\ lastEvent.op = "handlePauseForAnalysis"
  /\ ~isPlotPausedForAnalysis
  /\ lastEvent.buffered
  /\ DOMAIN activePlotChannelsRef # {}
  /\ BuffersEmpty

\* C29: pause blocks ingestion. While the pause-for-analysis flag is set, a
\* socket message and the completion of its asynchronous read change no
\* series buffer and no discrete state, also when the message was received
\* before the pause and its read completes after it.
C29_PausedNoIngest ==
  [][(isPlotPausedForAnalysis /\ lastEvent'.op \in {"onmessage", "onload"}) =>
       /\ activePlotChannelsRef' = activePlotChannelsRef
       /\ activeDiscreteChannelsRef' = activeDiscreteChannelsRef]_vars

\* C29 for the messages received while the flag is set
PausedMessageDropped ==
  [][(/\ lastEvent'.op = "onload"
      /\ readers # <<>>
      /\ \A i \in 1..Len(readers) : readers[i].paused) =>
       /\ activePlotChannelsRef' = activePlotChannelsRef
       /\ activeDiscreteChannelsRef' = activeDiscreteChannelsRef]_vars

\* the step is a click on the Stream / Update button
SelectStep == lastEvent'.op = "handleStreamButtonClick"

Routed(pool, groups) == Range(pool) \cup GroupChannels(groups)

\* C24: deleteGroup(g) removes group g and adds each of its members to the
\* pool once; the other groups keep their members, and the union of all
\* buckets, the series buffers and the metadata are as before.
C24_DeleteGroup ==
  [][lastEvent'.op = "deleteGroup" =>
       LET g == lastEvent'.arg
           NotIt(group) == group.id # g.id
       IN /\ g \in Range(channelGroups)
          /\ channelGroups' = SelectSeq(channelGroups, NotIt)
          /\ \A v \in ChannelValues :
               Count(availableChannels', v) =
                 Count(availableChannels, v) + Count(g.channels, v)
          /\ Len(availableChannels') = Len(availableChannels) + Len(g.channels)
          /\ \A v \in Range(g.channels) : Chips(v)' = 1
          /\ Routed(availableChannels', channelGroups')
               = Routed(availableChannels, channelGroups)
          /\ activePlotChannelsRef' = activePlotChannelsRef
          /\ channelIdToPlotInfoRef' = channelIdToPlotInfoRef]_vars

\* a group that held one channel has been deleted: that channel is in the
\* pool, the other channel is in the group that remains
C24_Witness ==
  /\ lastEvent.op = "deleteGroup"
  /\ Len(lastEvent.arg.channels) = 1
  /\ availableChannels = lastEvent.arg.channels
  /\ Len(channelGroups) = 1
  /\ Len(channelGroups[1].channels) = 1

\* the sequence s without the value v
Without(s, v) ==
  LET Other(x) == x # v
  IN SelectSeq(s, Other)

\* r differs from the current state at most in the bucket of channel ch: the
\* pool and every group hold the other channels as before, in order, the
\* groups are the same, and buffers and metadata are untouched
OnlyMoves(r, ch) ==
  /\ Without(r.availableChannels, ch) = Without(availableChannels, ch)
  /\ Len(r.channelGroups) = Len(channelGroups)
  /\ \A i \in 1..Len(channelGroups) :
       /\ r.channelGroups[i].id = channelGroups[i].id
       /\ Without(r.channelGroups[i].channels, ch) = Without(channelGroups[i].channels, ch)
  /\ Routed(r.availableChannels, r.channelGroups) = Routed(availableChannels, channelGroups)
  /\ r.activePlotChannelsRef = activePlotChannelsRef
  /\ r.channelIdToPlotInfoRef = channelIdToPlotInfoRef

\* the droppables a chip can be dropped on, and none
Destinations == {NoDestination, AvailableChannelsId} \cup GroupIds

\* C26: single-id moves. Dragging the chip of a channel from the bucket that
\* shows it to another bucket (pool to group, group to pool, group to group),
\* or removing it from its group, takes it out of the source and puts it
\* into the destination once and changes nothing else; a drop outside of all
\* buckets or onto the source changes nothing.
C26_SingleMove ==
  \A ch \in ChannelValues :
    \A sourceId \in BucketsOf(channelGroups, availableChannels, ch) :
      /\ \A destId \in Destinations :
           LET r == handleDragEnd(Cur, ch, sourceId, destId)
           IN IF destId = NoDestination \/ destId = sourceId THEN r = Cur
              ELSE /\ BucketsOf(r.channelGroups, r.availableChannels, ch)
                        = (BucketsOf(channelGroups, availableChannels, ch) \ {sourceId})
                            \cup {destId}
                   /\ Count(r.availableChannels, ch) + CountInGroups(r.channelGroups, ch)
                        = Chips(ch)
                   /\ OnlyMoves(r, ch)
      /\ sourceId # AvailableChannelsId =>
           LET r == removeChannelFromGroup(Cur, sourceId, ch)
           IN /\ BucketsOf(r.channelGroups, r.availableChannels, ch)
                   = (BucketsOf(channelGroups, availableChannels, ch) \ {sourceId})
                       \cup {AvailableChannelsId}
              /\ Count(r.availableChannels, ch) + CountInGroups(r.channelGroups, ch)
                   = Chips(ch)
              /\ OnlyMoves(r, ch)

\* a chip has been dragged from the pool into the first of two groups, the
\* other channel staying in the second group
C26_Witness ==
  /\ lastEvent.op = "handleDragEnd"
  /\ Len(channelGroups) = 2
  /\ lastEvent.arg = channelGroups[1].id
  /\ Len(channelGroups[1].channels) = 1
  /\ Len(channelGroups[2].channels) = 1
  /\ availableChannels = <<>>
  /\ lastEvent.routed

\* the channel of block b has neither a series buffer nor a discrete state
Unknown(b) ==
  /\ b.channelID \notin DOMAIN activePlotChannelsRef
  /\ b.channelID \notin DOMAIN activeDiscreteChannelsRef

\* the frame without its blocks of unknown channels
Known(frame) ==
  LET IsKnown(b) == ~Unknown(b)
      kept == SelectSeq(frame.blocks, IsKnown)
  IN [channelCount |-> Len(kept), blocks |-> kept]

\* C25: unknown channel. A block of a channel that has neither a series
\* buffer nor a discrete state changes no buffer, no discrete state and no
\* routing entry, and the other blocks of its frame are ingested as if it
\* were absent; no ingestion adds or removes a key of the series-buffer map
\* or of the discrete-state map.
C25_UnknownDiscarded ==
  [][lastEvent'.op = "onload" =>
       /\ DOMAIN activePlotChannelsRef' = DOMAIN activePlotChannelsRef
       /\ DOMAIN activeDiscreteChannelsRef' = DOMAIN activeDiscreteChannelsRef
       /\ availableChannels' = availableChannels
       /\ channelGroups' = channelGroups
       /\ channelIdToPlotInfoRef' = channelIdToPlotInfoRef
       /\ WellFormed(lastEvent'.arg) =>
            LET asIfAbsent == processWebSocketMessage(Cur, Known(lastEvent'.arg))
            IN /\ activePlotChannelsRef' = asIfAbsent.activePlotChannelsRef
               /\ activeDiscreteChannelsRef' = asIfAbsent.activeDiscreteChannelsRef
       /\ (\A b \in Range(lastEvent'.arg.blocks) : Unknown(b)) =>
            /\ activePlotChannelsRef' = activePlotChannelsRef
            /\ activeDiscreteChannelsRef' = activeDiscreteChannelsRef]_vars

\* a two-block frame has been decoded whose first block was of an unknown
\* channel and whose second block gave the continuous channel its two samples
C25_Witness ==
  /\ lastEvent.op = "onload"
  /\ WellFormed(lastEvent.arg)
  /\ Len(lastEvent.arg.blocks) = 2
  /\ lastEvent.arg.blocks[1].channelID \notin DOMAIN activeDiscreteChannelsRef
  /\ lastEvent.arg.blocks[1].channelID \notin DOMAIN activePlotChannelsRef
  /\ DOMAIN activePlotChannelsRef = {lastEvent.arg.blocks[2].channelID}
  /\ activePlotChannelsRef[lastEvent.arg.blocks[2].channelID]
       = <<[x |-> 20, y |-> 2], [x |-> 22, y |-> 1]>>

\* the sockets that are connecting or open
Live == {s \in SocketIds : sockets[s].rs \in {"CONNECTING", "OPEN"}}

\* the step handles the close event of a socket other than the current one
\* while the current one is connecting or open
StaleCloseStep ==
  /\ lastEvent'.op = "onclose"
  /\ dataStreamWSRef \notin {NULL, lastEvent'.sock}
  /\ dataStreamWSRef \in Live

\* C27: the socket handle refers to the most recently created socket that has
\* not closed. Handling the close event of an older socket, while a newer
\* socket is connecting or open, neither sets the handle to none nor resets
\* the selected system to Off.
C27_HandleSurvivesStaleClose ==
  [][StaleCloseStep =>
       /\ dataStreamWSRef' # NULL
       /\ selectedSystemIndex' = selectedSystemIndex]_vars

\* C28: at most one socket is connecting or open at any time, whatever
\* system changes and socket open, close and error events have happened.
C28_OneLiveSocket == Cardinality(Live) <= 1

\* C30: the channel-to-chart index that ingestion uses to look up a channel's
\* zoom flag names, for every wanted channel id, the bucket that holds it:
\* the pool's chart for a channel of the pool, the group id otherwise.
C30_ChartIndexCurrent ==
  \A id \in DOMAIN activePlotChannelsRef :
    BucketsOf(channelGroups, availableChannels, ChannelValue(id)) # {} =>
      MonitoringChart(id) \in BucketsOf(channelGroups, availableChannels, ChannelValue(id))
====
